---- MODULE Spec2Model ----
(***************************************************************************)
(* DracoLazyLoader (src/lazy_loader.py): a registry of lazily loaded       *)
(* components guarded by one re-entrant lock, with per-component           *)
(* threading.Timer objects that unload idle components.                    *)
(*                                                                         *)
(* Caller threads and timer threads are the agents.  Every handler body    *)
(* runs under self.lock, so a handler is one atomic step except where it   *)
(* calls out to a loader or an unloader, or sits in the wait loop of       *)
(* get_component: those are the points where other agents can be seen      *)
(* blocked on the lock and where time passes.                              *)
(*                                                                         *)
(* The collaborators (src/ai_core_fixed.py, src/search_agent.py,           *)
(* src/automation_system.py) serve their requests through the manager: a   *)
(* request is get_component, the use of the object and schedule_unload,    *)
(* and their cleanup methods unload what they loaded.                      *)
(***************************************************************************)
EXTENDS Integers, Sequences, FiniteSets, TLC

\* ---- bounds of the model ------------------------------------------------
\* Names: the component names callers use.  Threads: the caller threads.
\* MaxCalls: how many handler calls the caller threads make in one run;
\* MaxCallsOne: the same for runs with one caller thread and one component;
\* MaxCallsLive: the same for the runs in which termination is checked.
\* Timeouts: the timeouts passed to schedule_unload.  StartTime: the clock's
\* reading at construction.  Callers: the threads that call get_lazy_loader.
\* MaxCallsCollab: the manager calls made by the collaborators' requests in
\* one run; MaxPass: how many times the clock moves in such a run.
Names == {"a", "b"}
Threads == {1, 2}
Callers == {1, 2, 3}
MaxCalls == 4
MaxCallsOne == 5
MaxCallsLive == 4
MaxCallsCollab == 4
MaxPass == 2
Timeouts == {0, 1}
StartTime == 100

\* ---- program constants --------------------------------------------------
WaitCeiling == 30

NOT_LOADED == "not_loaded"
LOADING == "loading"
LOADED == "loaded"
UNLOADING == "unloading"
ERROR == "error"
LoadState == {NOT_LOADED, LOADING, LOADED, UNLOADING, ERROR}

None == 0
\* The clock is followed for one tick and for one step past the wait ceiling.
TickSteps == {1, WaitCeiling + 1}
Clock == {StartTime, StartTime + 1, StartTime + WaitCeiling + 1}
\* every schedule_unload call makes one timer
TimerIds == 1..(MaxCalls + MaxCallsOne)
LoaderOutcomes == {"value", "null", "raise", "raise_bare", "interrupt"}
\* the outcomes that are an Exception: with a message, and without one
Raised == {"raise", "raise_bare"}
UnloaderOutcomes == {"ok", "raise", "interrupt"}

VARIABLES
    components,     \* self.components: name -> descriptor
    keys,           \* insertion order of self.components
    unload_timers,  \* self.unload_timers: name -> timer
    timers,         \* every threading.Timer created so far
    lock,           \* self.lock (RLock): owner and recursion count
    thr,            \* per caller thread: where it is inside its call
    now,            \* time.time()
    loads,          \* per name: how many times its loader has been invoked
    plain,          \* per name: only registered once, plainly acquired so far
    last,           \* the most recent handler return
    calls,          \* handler calls the caller threads may still make
    accessor        \* the module global _lazy_loader and its callers

vars == <<components, keys, unload_timers, timers, lock, thr, now, loads, plain, last, calls,
          accessor>>

NoOwner == [kind |-> "none", id |-> 0]
ThreadOwner(t) == [kind |-> "thread", id |-> t]
TimerOwner(tm) == [kind |-> "timer", id |-> tm]
Unlocked == [owner |-> NoOwner, count |-> 0]
\* no mutual exclusion at all: the lock is always there for the taking
LockFreeAlways == TRUE

LockFree == lock.owner = NoOwner

NoCall == [op |-> "none", name |-> "none", force |-> FALSE, timeout |-> 0, unloader |-> FALSE]

\* A collaborator's request on a caller thread: which method (op), its
\* argument (input), where it is (pc: "get" before its get_component call,
\* "use" after it, "schedule" before its schedule_unload call) and how its
\* get_component ended (got).
NoGot == [kind |-> "none", val |-> None, cb |-> "none"]
NoRequest == [op |-> "none", input |-> "none", pc |-> "idle", got |-> NoGot]

\* What a request gives its caller.  Of the result dictionary the record
\* keeps success and the text that describes the error, as a sequence of
\* pieces (<<>> is the empty string); raised says the request ended with an
\* exception instead.
Succeeded == [raised |-> FALSE, success |-> TRUE, error |-> <<>>]
Failed(text) == [raised |-> FALSE, success |-> FALSE, error |-> text]
Propagated == [raised |-> TRUE, success |-> FALSE, error |-> <<>>]
NoResult == [raised |-> FALSE, success |-> FALSE, error |-> <<>>]

IdleThread == [pc |-> "idle", call |-> NoCall, rest |-> <<>>, since |-> 0,
               waited |-> FALSE, was |-> "none", req |-> NoRequest]

\* What the most recent handler did: the call, how it ended (kind), the value
\* it returned (val; for a timer check, the timer), the component's state when
\* the handler took the lock (was), whether the caller had to wait for the
\* lock (waited), how the callback it invoked ended (cb), for get_status
\* the returned dictionary (status), and for get_component its force_reload
\* argument (force).  When a collaborator's request returns, op is the
\* request, name its argument, kind, val and cb are those of its
\* get_component call, and result is what the request gave.
NoEvent == [op |-> "none", name |-> "none", kind |-> "none", val |-> None,
            was |-> "none", waited |-> FALSE, cb |-> "none", status |-> <<>>,
            force |-> FALSE, result |-> NoResult]

Event(op, n, kind, val, was, w, cb) ==
    [op |-> op, name |-> n, kind |-> kind, val |-> val, was |-> was,
     waited |-> w, cb |-> cb, status |-> <<>>, force |-> FALSE, result |-> NoResult]

RequestEvent(req, res) ==
    [Event(req.op, req.input, req.got.kind, req.got.val, "none", FALSE, req.got.cb)
        EXCEPT !.result = res]

StateOf(n) == IF n \in DOMAIN components THEN components[n].state ELSE "unregistered"

\* line 158: _lazy_loader is None, no manager has been constructed, and no
\* thread is inside get_lazy_loader
NoAccess ==
    [global |-> None, made |-> 0,
     caller |-> [t \in Callers |-> [pc |-> "idle", ret |-> None]]]

Init ==
    /\ components = <<>>
    /\ keys = <<>>
    /\ unload_timers = <<>>
    /\ timers = <<>>
    /\ lock = Unlocked
    /\ thr = [t \in Threads |-> IdleThread]
    /\ now = StartTime
    /\ loads = [n \in Names |-> 0]
    /\ plain = [n \in Names |-> TRUE]
    /\ last = NoEvent
    /\ calls = MaxCalls
    /\ accessor = NoAccess

\* A timer whose thread has ended ("cancelled", "done") is kept with its name
\* and phase only: its interval and arguments are never read again.
Ended(tm, phase) == [name |-> tm.name, timeout |-> 0, deadline |-> 0, phase |-> phase]

\* Timer.cancel(): sets the finished event; only a timer still waiting for
\* its interval is stopped by it.
Cancel(tms, id) ==
    [tms EXCEPT ![id] = IF @.phase = "waiting" THEN Ended(@, "cancelled") ELSE @]

\* The manager call of a request has ended: the request goes on after its
\* get_component with what the call gave, and returns after its
\* schedule_unload.
AfterCall(req, ev) ==
    CASE req.pc = "get" ->
           [req EXCEPT !.pc = "use",
                       !.got = [kind |-> ev.kind, val |-> ev.val, cb |-> ev.cb]]
      [] OTHER -> NoRequest

\* the return that follows the end of a manager call: the call's own, or
\* that of the request which ends with the call
Returns(req, ev) ==
    IF req.pc = "schedule" THEN RequestEvent(req, Succeeded) ELSE ev

\* the same with acquire() and release() in place of the with-block: an
\* exception skips the release
FinishKeepsLockOnError(t, ev) ==
    /\ thr' = [thr EXCEPT ![t] = [IdleThread EXCEPT !.req = AfterCall(thr[t].req, ev)]]
    /\ lock' = IF ev.kind \in {"ok", "none"}
               THEN Unlocked ELSE [owner |-> ThreadOwner(t), count |-> 1]
    /\ last' = Returns(thr[t].req, ev)

\* the handler of thread t returns (or raises) and leaves the with-block
Finish(t, ev) ==
    /\ thr' = [thr EXCEPT ![t] = [IdleThread EXCEPT !.req = AfterCall(thr[t].req, ev)]]
    /\ lock' = Unlocked
    /\ last' = Returns(thr[t].req, ev)

\* the handler of thread t stays inside the lock at a call-out or wait
Stay(t, pc, call, rest, w, was) ==
    /\ thr' = [thr EXCEPT ![t] = [pc |-> pc, call |-> call, rest |-> rest,
                                   since |-> IF pc = "waiting" THEN now ELSE 0,
                                   waited |-> w, was |-> was, req |-> thr[t].req]]
    /\ lock' = [owner |-> ThreadOwner(t), count |-> IF call.op = "unload_all" THEN 2 ELSE 1]
    /\ last' = NoEvent

\* ---- register_component -------------------------------------------------
NewDescriptor(u) ==
    [unloader |-> u, state |-> NOT_LOADED, instance |-> None,
     last_used |-> 0, access_count |-> 0]

\* the same as a setdefault: a name that is registered keeps its descriptor
RegisteredKeepsExisting(n, u) ==
    [x \in (DOMAIN components) \cup {n} |->
        IF x = n /\ n \notin DOMAIN components THEN NewDescriptor(u) ELSE components[x]]

\* line 39: self.components[name] = {...}
Registered(n, u) ==
    [x \in (DOMAIN components) \cup {n} |->
        IF x = n THEN NewDescriptor(u) ELSE components[x]]

RegisterBody(t, call, w) ==
    LET n == call.name IN
    /\ components' = Registered(n, call.unloader)
    /\ keys' = IF n \in DOMAIN components THEN keys ELSE Append(keys, n)
    /\ plain' = [plain EXCEPT ![n] = (n \notin DOMAIN components) /\ @]
    /\ Finish(t, Event("register", n, "ok", None, StateOf(n), w, "none"))
    /\ UNCHANGED <<unload_timers, timers, now, loads>>

\* ---- get_component ------------------------------------------------------
\* the same test with the wrong state in it: a Loaded component is reloaded
NeedsLoadNoCache(c, force) == force \/ c.state # LOADING

\* the same test without force_reload: a Loaded component is never reloaded
NeedsLoadIgnoresForce(c, force) == c.state \in {NOT_LOADED, ERROR}

\* the same test with ERROR left out: a failed component stays failed
NeedsLoadStickyError(c, force) == force \/ c.state = NOT_LOADED

\* line 73: does this call invoke the loader?
NeedsLoad(c, force) == force \/ c.state \in {NOT_LOADED, ERROR}

\* the same without line 89: a cached return is not counted
AfterCachedGetNoCount(n) == [components EXCEPT ![n].last_used = now]

\* the same without line 88: a cached return leaves the time stamp alone
AfterCachedGetNoStamp(n) == [components EXCEPT ![n].access_count = @ + 1]

\* lines 88-89: the descriptor after a return of the cached instance
AfterCachedGet(n) ==
    [components EXCEPT ![n].last_used = now, ![n].access_count = @ + 1]

\* the same with the cancel of lines 61-62 ahead of the check of lines 55-56
TimersAfterGetCancelFirst(n) ==
    IF n \in DOMAIN unload_timers
    THEN Cancel(timers, unload_timers[n]) ELSE timers

\* lines 55-62: the timers after the entry of get_component(n); the KeyError
\* of line 56 comes before the cancel of line 62
TimersAfterGet(n) ==
    IF n \in DOMAIN components /\ n \in DOMAIN unload_timers
    THEN Cancel(timers, unload_timers[n]) ELSE timers

GetBody(t, call, w) ==
    LET n == call.name IN
    IF n \notin DOMAIN components
    THEN /\ Finish(t, [Event("get", n, "KeyError", None, "unregistered", w, "none")
                          EXCEPT !.force = call.force])
         /\ timers' = TimersAfterGet(n)
         /\ UNCHANGED <<components, keys, unload_timers, now, loads, plain>>
    ELSE LET c == components[n] IN
         /\ timers' = TimersAfterGet(n)
         /\ UNCHANGED <<keys, unload_timers, now>>
         /\ IF c.state = LOADING
            THEN /\ Stay(t, "waiting", call, <<>>, w, c.state)
                 /\ UNCHANGED <<components, loads, plain>>
            ELSE IF NeedsLoad(c, call.force)
            THEN /\ components' = [components EXCEPT ![n].state = LOADING]
                 /\ loads' = [loads EXCEPT ![n] = @ + 1]
                 /\ plain' = [plain EXCEPT ![n] = @ /\ ~call.force]
                 /\ Stay(t, "in_loader", call, <<>>, w, c.state)
            ELSE /\ components' = AfterCachedGet(n)
                 /\ Finish(t, [Event("get", n, "ok", c.instance, c.state, w, "none")
                                  EXCEPT !.force = call.force])
                 /\ UNCHANGED <<loads, plain>>

\* lines 67-70: the wait loop gives up.  The loop's other exit (the state is
\* no longer LOADING) needs a writer of comp["state"], and every writer needs
\* the lock the waiting thread holds, so the loop can only end here.
WaitTimeout(t) ==
    /\ UNCHANGED calls
    /\ thr[t].pc = "waiting"
    /\ now - thr[t].since > WaitCeiling
    /\ Finish(t, [Event("get", thr[t].call.name, "TimeoutError", None,
                        thr[t].was, thr[t].waited, "none")
                     EXCEPT !.force = thr[t].call.force])
    /\ UNCHANGED <<components, keys, unload_timers, timers, now, loads, plain>>
    /\ UNCHANGED accessor

\* the same with one error state for the whole manager: a loader that
\* raises puts every component in ERROR
AfterLoaderGlobalError(n, o) ==
    CASE o \in {"value", "null"} ->
           [components EXCEPT ![n].instance = IF o = "value" THEN loads[n] ELSE None,
                              ![n].state = LOADED,
                              ![n].last_used = now, ![n].access_count = @ + 1]
      [] o \in Raised -> [x \in DOMAIN components |->
                            [components[x] EXCEPT !.state = ERROR]]
      [] OTHER -> components

\* the same lines with the bookkeeping of lines 78-80 also done on failure
AfterLoaderCountsFailure(n, o) ==
    CASE o \in {"value", "null"} ->
           [components EXCEPT ![n].instance = IF o = "value" THEN loads[n] ELSE None,
                              ![n].state = LOADED,
                              ![n].last_used = now, ![n].access_count = @ + 1]
      [] o \in Raised -> [components EXCEPT ![n].state = ERROR,
                                             ![n].last_used = now,
                                             ![n].access_count = @ + 1]
      [] OTHER -> components

\* lines 76-86: the descriptor after the loader came back.  "value": a fresh
\* object, numbered by the loader invocation that built it; "null": the
\* loader returns None; "raise": an Exception that has a message;
\* "raise_bare": an Exception without one (str(e) is empty); "interrupt": a
\* BaseException that the except clause does not catch.
AfterLoader(n, o) ==
    CASE o \in {"value", "null"} ->
           [components EXCEPT ![n].instance = IF o = "value" THEN loads[n] ELSE None,
                              ![n].state = LOADED,
                              ![n].last_used = now, ![n].access_count = @ + 1]
      [] o \in Raised -> [components EXCEPT ![n].state = ERROR]
      [] OTHER -> components

\* lines 76-86: the loader comes back and the call returns or raises
LoaderReturn(t, o) ==
    LET n == thr[t].call.name
        inst == IF o = "value" THEN loads[n] ELSE None
        kind == CASE o \in {"value", "null"} -> "ok"
                  [] o \in Raised -> "LoadError"
                  [] OTHER -> "Interrupt"
    IN
    /\ thr[t].pc = "in_loader"
    /\ UNCHANGED calls
    /\ components' = AfterLoader(n, o)
    /\ plain' = [plain EXCEPT ![n] = @ /\ o = "value"]
    /\ Finish(t, [Event("get", n, kind, inst, thr[t].was, thr[t].waited, o)
                     EXCEPT !.force = thr[t].call.force])
    /\ UNCHANGED <<keys, unload_timers, timers, now, loads>>
    /\ UNCHANGED accessor

\* ---- schedule_unload ----------------------------------------------------
ScheduleBody(t, call, w) ==
    LET n == call.name
        old == IF n \in DOMAIN unload_timers
               THEN Cancel(timers, unload_timers[n]) ELSE timers
    IN
    /\ timers' = Append(old, [name |-> n, timeout |-> call.timeout,
                              deadline |-> now + call.timeout, phase |-> "waiting"])
    /\ unload_timers' = [x \in (DOMAIN unload_timers) \cup {n} |->
                           IF x = n THEN Len(timers) + 1 ELSE unload_timers[x]]
    /\ Finish(t, Event("schedule", n, "ok", None, StateOf(n), w, "none"))
    /\ UNCHANGED <<components, keys, now, loads, plain>>

\* ---- unload_component ---------------------------------------------------
\* the same test without the state: the unloader runs whatever the state
NeedsUnloaderAnyState(comps, n) ==
    /\ n \in DOMAIN comps
    /\ comps[n].unloader

\* line 121: the only case in which unload_component does anything
NeedsUnloader(comps, n) ==
    /\ n \in DOMAIN comps
    /\ comps[n].state = LOADED
    /\ comps[n].unloader

\* lines 123-129: "ok" runs lines 124-125; "raise", an Exception, jumps to
\* the except clause of line 128; "interrupt", a BaseException that the
\* except clause does not catch, leaves unload_component at line 123
AfterUnloader(n, o) ==
    IF o = "ok"
    THEN [components EXCEPT ![n].instance = None, ![n].state = NOT_LOADED]
    ELSE components

UnloadBody(t, call, w) ==
    LET n == call.name IN
    /\ IF NeedsUnloader(components, n)
       THEN Stay(t, "in_unloader", call, <<>>, w, StateOf(n))
       ELSE Finish(t, Event("unload", n, "ok", None, StateOf(n), w, "none"))
    /\ UNCHANGED <<components, keys, unload_timers, timers, now, loads, plain>>

\* ---- unload_all ---------------------------------------------------------
FirstToUnload(comps, seq) ==
    IF \E i \in 1..Len(seq) : NeedsUnloader(comps, seq[i])
    THEN CHOOSE i \in 1..Len(seq) :
            /\ NeedsUnloader(comps, seq[i])
            /\ \A j \in 1..(i - 1) : ~NeedsUnloader(comps, seq[j])
    ELSE 0

\* lines 136-138
CancelAll(tms) ==
    [i \in 1..Len(tms) |->
        IF \E n \in DOMAIN unload_timers : unload_timers[n] = i
        THEN Cancel(tms, i)[i] ELSE tms[i]]

\* the loop of line 134 over the names in seq, then lines 136-138
UnloadAllFrom(t, comps, seq, w, cb) ==
    LET i == FirstToUnload(comps, seq) IN
    IF i > 0
    THEN /\ Stay(t, "in_unloader", [NoCall EXCEPT !.op = "unload_all", !.name = seq[i]],
                 SubSeq(seq, i + 1, Len(seq)), w, "none")
         /\ UNCHANGED <<unload_timers, timers>>
    ELSE /\ timers' = CancelAll(timers)
         /\ unload_timers' = <<>>
         /\ Finish(t, Event("unload_all", "none", "ok", None, "none", w, cb))

UnloadAllBody(t, call, w) ==
    /\ UnloadAllFrom(t, components, keys, w, "none")
    /\ UNCHANGED <<components, keys, now, loads, plain>>

\* The unloader called by thread t comes back.  A BaseException goes
\* through unload_component and, when unload_all made the call, through
\* unload_all: its loop of line 134 is left, lines 136-138 do not run, and
\* the with-blocks release the lock.
UnloaderReturn(t, o) ==
    LET n == thr[t].call.name IN
    /\ thr[t].pc = "in_unloader"
    /\ UNCHANGED calls
    /\ components' = AfterUnloader(n, o)
    /\ plain' = [plain EXCEPT ![n] = @ /\ o # "ok"]
    /\ IF o = "interrupt"
       THEN /\ Finish(t, Event(thr[t].call.op,
                               IF thr[t].call.op = "unload_all" THEN "none" ELSE n,
                               "Interrupt", None, thr[t].was, thr[t].waited, o))
            /\ UNCHANGED <<unload_timers, timers>>
       ELSE IF thr[t].call.op = "unload_all"
       THEN UnloadAllFrom(t, AfterUnloader(n, o), thr[t].rest, thr[t].waited, o)
       ELSE /\ Finish(t, Event("unload", n, "ok", None, thr[t].was, thr[t].waited, o))
            /\ UNCHANGED <<unload_timers, timers>>
    /\ UNCHANGED <<keys, now, loads>>
    /\ UNCHANGED accessor

\* ---- get_status ---------------------------------------------------------
\* the same without the test of line 147: the idle time of a component that
\* was never used is the whole clock reading
StatusLiveIdle ==
    [n \in DOMAIN components |->
        [state |-> components[n].state,
         idle_seconds |-> now - components[n].last_used,
         access_count |-> components[n].access_count]]

Status ==
    [n \in DOMAIN components |->
        [state |-> components[n].state,
         idle_seconds |-> IF components[n].last_used > 0
                          THEN now - components[n].last_used ELSE 0,
         access_count |-> components[n].access_count]]

StatusBody(t, call, w) ==
    /\ Finish(t, [Event("status", "none", "ok", None, "none", w, "none")
                    EXCEPT !.status = Status])
    /\ UNCHANGED <<components, keys, unload_timers, timers, now, loads, plain>>

\* ---- a caller thread enters a handler -----------------------------------
Body(t, call, w) ==
    \/ call.op = "register" /\ RegisterBody(t, call, w)
    \/ call.op = "get" /\ GetBody(t, call, w)
    \/ call.op = "schedule" /\ ScheduleBody(t, call, w)
    \/ call.op = "unload" /\ UnloadBody(t, call, w)
    \/ call.op = "unload_all" /\ UnloadAllBody(t, call, w)
    \/ call.op = "status" /\ StatusBody(t, call, w)

\* a thread that is inside a manager call or inside a request
Busy(u) == thr[u].pc # "idle" \/ thr[u].req.pc # "idle"

\* "with self.lock": run the handler if the lock is free, else block on it
\* Caller threads are interchangeable, so thread t makes a call only while
\* every thread before it is busy.
Begin(t, call) ==
    /\ \A u \in Threads : u < t => Busy(u)
    /\ calls > 0
    /\ calls' = calls - 1
    /\ IF LockFree
       THEN Body(t, call, FALSE)
       ELSE /\ thr' = [thr EXCEPT ![t] = [IdleThread EXCEPT !.pc = "blocked",
                                              !.call = call, !.since = now, !.waited = TRUE,
                                              !.req = thr[t].req]]
            /\ UNCHANGED <<components, keys, unload_timers, timers, lock, now,
                           loads, plain, last>>

AcquireLock(t) ==
    /\ thr[t].pc = "blocked"
    /\ LockFree
    /\ Body(t, thr[t].call, TRUE)
    /\ UNCHANGED calls
    /\ UNCHANGED accessor

\* Component names are interchangeable: "b" is registered after "a".
RegisterComponent(t, n, u) ==
    /\ thr[t].pc = "idle"
    /\ n = "b" => "a" \in DOMAIN components
    /\ Begin(t, [NoCall EXCEPT !.op = "register", !.name = n, !.unloader = u])
    /\ UNCHANGED accessor

GetComponent(t, n, f) ==
    /\ thr[t].pc = "idle"
    /\ Begin(t, [NoCall EXCEPT !.op = "get", !.name = n, !.force = f])
    /\ UNCHANGED accessor

ScheduleUnload(t, n, to) ==
    /\ thr[t].pc = "idle"
    /\ Begin(t, [NoCall EXCEPT !.op = "schedule", !.name = n, !.timeout = to])
    /\ UNCHANGED accessor

UnloadComponent(t, n) ==
    /\ thr[t].pc = "idle"
    /\ Begin(t, [NoCall EXCEPT !.op = "unload", !.name = n])
    /\ UNCHANGED accessor

UnloadAll(t) ==
    /\ thr[t].pc = "idle"
    /\ Begin(t, [NoCall EXCEPT !.op = "unload_all"])
    /\ UNCHANGED accessor

GetStatus(t) ==
    /\ thr[t].pc = "idle"
    /\ Begin(t, [NoCall EXCEPT !.op = "status"])
    /\ UNCHANGED accessor

\* ---- timer threads ------------------------------------------------------
\* Timer.run(): the interval is over and the timer was not cancelled
TimerExpire(tm) ==
    /\ tm \in 1..Len(timers)
    /\ timers[tm].phase = "waiting"
    /\ now >= timers[tm].deadline
    /\ timers' = [timers EXCEPT ![tm].phase = "expired"]
    /\ UNCHANGED <<components, keys, unload_timers, lock, thr, now, loads, plain, last, calls>>
    /\ UNCHANGED accessor

\* the same check without the idle time: any Loaded component is evicted
IsIdleAnyAge(c, timeout) == c.state = LOADED

\* line 113: the check of _unload_if_idle
IsIdle(c, timeout) == now - c.last_used >= timeout /\ c.state = LOADED

\* _unload_if_idle(name, timeout) on the timer's thread.  The event's kind
\* is "evict" when the check of line 113 passes and "skip" when it does not
\* ("Interrupt" when the unloader ended the callback with a BaseException).
UnloadIfIdle(tm) ==
    LET n == timers[tm].name
        idle == n \in DOMAIN components /\ IsIdle(components[n], timers[tm].timeout)
    IN
    /\ tm \in 1..Len(timers)
    /\ timers[tm].phase = "expired"
    /\ LockFree
    /\ IF idle /\ NeedsUnloader(components, n)
       THEN /\ timers' = [timers EXCEPT ![tm].phase = "in_unloader"]
            /\ lock' = [owner |-> TimerOwner(tm), count |-> 2]
            /\ last' = NoEvent
       ELSE /\ timers' = [timers EXCEPT ![tm] = Ended(@, "done")]
            /\ lock' = Unlocked
            /\ last' = Event("timer", n, IF idle THEN "evict" ELSE "skip", tm,
                             StateOf(n), FALSE, "none")
    /\ UNCHANGED <<components, keys, unload_timers, thr, now, loads, plain, calls>>
    /\ UNCHANGED accessor

\* The unloader called from the timer's thread comes back.  A BaseException
\* goes through unload_component and _unload_if_idle and ends the timer's
\* thread; the with-blocks release the lock.
TimerUnloaderReturn(tm, o) ==
    LET n == timers[tm].name IN
    /\ tm \in 1..Len(timers)
    /\ timers[tm].phase = "in_unloader"
    /\ components' = AfterUnloader(n, o)
    /\ plain' = [plain EXCEPT ![n] = @ /\ o # "ok"]
    /\ timers' = [timers EXCEPT ![tm] = Ended(@, "done")]
    /\ lock' = Unlocked
    /\ last' = Event("timer", n, IF o = "interrupt" THEN "Interrupt" ELSE "evict",
                     tm, LOADED, FALSE, o)
    /\ UNCHANGED <<keys, unload_timers, thr, now, loads, calls>>
    /\ UNCHANGED accessor

\* ---- time ---------------------------------------------------------------
\* The clock moves in unit ticks; it is moved past the wait ceiling in one
\* step while a caller is waiting for the lock or in the wait loop.
Tick(d) ==
    /\ now + d \in Clock
    /\ d > 1 => \E t \in Threads : thr[t].pc \in {"waiting", "blocked"}
    /\ now' = now + d
    /\ UNCHANGED <<components, keys, unload_timers, timers, lock, thr, loads, plain, last, calls>>
    /\ UNCHANGED accessor

Next ==
    \/ \E t \in Threads, n \in Names, u \in BOOLEAN : RegisterComponent(t, n, u)
    \/ \E t \in Threads, n \in Names, f \in BOOLEAN : GetComponent(t, n, f)
    \/ \E t \in Threads, n \in Names, to \in Timeouts : ScheduleUnload(t, n, to)
    \/ \E t \in Threads, n \in Names : UnloadComponent(t, n)
    \/ \E t \in Threads : UnloadAll(t)
    \/ \E t \in Threads : GetStatus(t)
    \/ \E t \in Threads : AcquireLock(t)
    \/ \E t \in Threads : WaitTimeout(t)
    \/ \E t \in Threads, o \in LoaderOutcomes : LoaderReturn(t, o)
    \/ \E t \in Threads, o \in UnloaderOutcomes : UnloaderReturn(t, o)
    \/ \E tm \in TimerIds : TimerExpire(tm)
    \/ \E tm \in TimerIds : UnloadIfIdle(tm)
    \/ \E tm \in TimerIds, o \in UnloaderOutcomes : TimerUnloaderReturn(tm, o)
    \/ \E d \in TickSteps : Tick(d)

Spec == Init /\ [][Next]_vars

\* Runs of one caller thread on one component, with one more call.
InitOne ==
    /\ components = <<>>
    /\ keys = <<>>
    /\ unload_timers = <<>>
    /\ timers = <<>>
    /\ lock = Unlocked
    /\ thr = [t \in Threads |-> IdleThread]
    /\ now = StartTime
    /\ loads = [n \in Names |-> 0]
    /\ plain = [n \in Names |-> TRUE]
    /\ last = NoEvent
    /\ calls = MaxCallsOne
    /\ accessor = NoAccess

NextOne ==
    \/ \E u \in BOOLEAN : RegisterComponent(1, "a", u)
    \/ \E f \in BOOLEAN : GetComponent(1, "a", f)
    \/ \E to \in Timeouts : ScheduleUnload(1, "a", to)
    \/ UnloadComponent(1, "a")
    \/ UnloadAll(1)
    \/ GetStatus(1)
    \/ AcquireLock(1)
    \/ WaitTimeout(1)
    \/ \E o \in LoaderOutcomes : LoaderReturn(1, o)
    \/ \E o \in UnloaderOutcomes : UnloaderReturn(1, o)
    \/ \E tm \in TimerIds : TimerExpire(tm)
    \/ \E tm \in TimerIds : UnloadIfIdle(tm)
    \/ \E tm \in TimerIds, o \in UnloaderOutcomes : TimerUnloaderReturn(tm, o)
    \/ \E d \in TickSteps : Tick(d)

SpecOne == InitOne /\ [][NextOne]_vars

\* ---- termination ---------------------------------------------------------
\* Runs of two caller threads on one component, with timers of timeout 0
\* (they can fire at once), in which the clock is not cut off: whenever a
\* caller is in the wait loop, time can pass beyond the wait ceiling.
InitLive ==
    /\ components = <<>>
    /\ keys = <<>>
    /\ unload_timers = <<>>
    /\ timers = <<>>
    /\ lock = Unlocked
    /\ thr = [t \in Threads |-> IdleThread]
    /\ now = StartTime
    /\ loads = [n \in Names |-> 0]
    /\ plain = [n \in Names |-> TRUE]
    /\ last = NoEvent
    /\ calls = MaxCallsLive
    /\ accessor = NoAccess

\* lines 67-70: time.sleep(0.1) until more than the ceiling has gone by
Elapse ==
    /\ \E t \in Threads : thr[t].pc = "waiting" /\ now - thr[t].since <= WaitCeiling
    /\ now' = now + WaitCeiling + 1
    /\ UNCHANGED <<components, keys, unload_timers, timers, lock, thr, loads, plain, last,
                   calls, accessor>>

NextLive ==
    \/ \E t \in Threads, u \in BOOLEAN : RegisterComponent(t, "a", u)
    \/ \E t \in Threads, f \in BOOLEAN : GetComponent(t, "a", f)
    \/ \E t \in Threads : ScheduleUnload(t, "a", 0)
    \/ \E t \in Threads : UnloadComponent(t, "a")
    \/ \E t \in Threads : UnloadAll(t)
    \/ \E t \in Threads : GetStatus(t)
    \/ \E t \in Threads : AcquireLock(t)
    \/ \E t \in Threads : WaitTimeout(t)
    \/ \E t \in Threads, o \in LoaderOutcomes : LoaderReturn(t, o)
    \/ \E t \in Threads, o \in UnloaderOutcomes : UnloaderReturn(t, o)
    \/ \E tm \in TimerIds : TimerExpire(tm)
    \/ \E tm \in TimerIds : UnloadIfIdle(tm)
    \/ \E tm \in TimerIds, o \in UnloaderOutcomes : TimerUnloaderReturn(tm, o)
    \/ Elapse

\* What the scheduling guarantees: a free lock is given to some thread that
\* waits for it, a callback that was called comes back (the claim's
\* proviso), a timer thread that is ready runs, and time passes.
Fairness ==
    /\ WF_vars(\E t \in Threads : AcquireLock(t))
    /\ WF_vars(\E t \in Threads : WaitTimeout(t))
    /\ WF_vars(\E t \in Threads, o \in LoaderOutcomes : LoaderReturn(t, o))
    /\ WF_vars(\E t \in Threads, o \in UnloaderOutcomes : UnloaderReturn(t, o))
    /\ WF_vars(\E tm \in TimerIds : UnloadIfIdle(tm))
    /\ WF_vars(\E tm \in TimerIds, o \in UnloaderOutcomes : TimerUnloaderReturn(tm, o))
    /\ WF_vars(Elapse)

SpecLive == InitLive /\ [][NextLive]_vars /\ Fairness

\* ---- the collaborators' requests ------------------------------------------
\* DracoAICore, DracoAutomation and DracoSearchAgent each register one
\* component with the manager in their constructor and serve a request on
\* the thread that calls it: checks of their own, then a try block with
\* get_component, the use of the object and schedule_unload, whose
\* "except Exception as e" returns a dictionary with success False and
\* str(e).
Queries == {"query", "no_query"}
CacheLookups == {"miss", "hit"}
\* An entry of self.cache comes from an earlier search or, as it is, from
\* the cache file (line 96): with its "results" key, or without it.
CachedEntries == {"whole", "torn"}
Commands == {"click", "scroll", "dangerous"}
\* How the use of the acquired object ends: it works, it raises an Exception
\* with a message or without one, or it raises a BaseException.
UseOutcomes == {"ok", "fails", "fails_bare", "interrupt"}

\* str(e) of the Exception that get_component raised: the texts of lines 56
\* and 69, or the text of the loader's exception
Message(got) ==
    IF got.kind = "LoadError" /\ got.cb = "raise_bare" THEN <<>> ELSE <<got.kind>>

\* What the try block of a request comes to, given how get_component ended
\* and how the use of the object ended (u).  An Exception of get_component
\* (KeyError, the loader's exception, TimeoutError) is caught; a
\* BaseException is not; a None instance fails at its first use inside the
\* try block and is caught as well; so is an Exception of the use.
CollaboratorResult(got, u) ==
    CASE got.kind \in {"KeyError", "LoadError", "TimeoutError"} -> Failed(Message(got))
      [] got.kind = "Interrupt" -> Propagated
      [] got.val = None -> Failed(<<"NoneType">>)
      [] u = "fails" -> Failed(<<"UseError">>)
      [] u = "fails_bare" -> Failed(<<>>)
      [] u = "interrupt" -> Propagated
      [] OTHER -> Succeeded

\* The request op(input) of thread t starts and runs up to its try block;
\* when ends is true it is over before that, with result res.
Enter(t, op, input, ends, res) ==
    LET req == [NoRequest EXCEPT !.op = op, !.input = input, !.pc = "get"] IN
    /\ thr[t].pc = "idle"
    /\ thr[t].req.pc = "idle"
    /\ \A u \in Threads : u < t => Busy(u)
    /\ IF ends
       THEN thr' = thr /\ last' = RequestEvent(req, res)
       ELSE thr' = [thr EXCEPT ![t].req = req] /\ last' = NoEvent
    /\ UNCHANGED <<components, keys, unload_timers, timers, lock, now, loads, plain,
                   calls, accessor>>

\* the request's call self.lazy_loader.get_component(n)
Acquire(t, op, n) ==
    /\ thr[t].req.op = op
    /\ thr[t].req.pc = "get"
    /\ GetComponent(t, n, FALSE)

\* The rest of the try block up to the schedule_unload call, with result
\* res: a failure ends the request, a success takes it to schedule_unload.
Use(t, op, res) ==
    /\ thr[t].pc = "idle"
    /\ thr[t].req.op = op
    /\ thr[t].req.pc = "use"
    /\ IF res.success
       THEN thr' = [thr EXCEPT ![t].req.pc = "schedule"] /\ last' = NoEvent
       ELSE thr' = [thr EXCEPT ![t].req = NoRequest]
            /\ last' = RequestEvent(thr[t].req, res)
    /\ UNCHANGED <<components, keys, unload_timers, timers, lock, now, loads, plain,
                   calls, accessor>>

\* the request's call self.lazy_loader.schedule_unload(n, timeout=to), after
\* which it returns its result
Release(t, op, n, to) ==
    /\ thr[t].req.op = op
    /\ thr[t].req.pc = "schedule"
    /\ ScheduleUnload(t, n, to)

\* DracoAICore.process_query.  Line 172 slices the query outside the try
\* block: a query of None raises TypeError to the caller.  The except clause
\* puts "AI processing error: " in front of str(e).
process_query(t) ==
    /\ thr[t].pc = "idle"
    /\ \/ \E q \in Queries : Enter(t, "process_query", q, q = "no_query", Propagated)
       \/ Acquire(t, "process_query", "chat_model")
       \/ \E u \in UseOutcomes :
             LET r == CollaboratorResult(thr[t].req.got, u) IN
             Use(t, "process_query",
                 IF r.success \/ r.raised
                 THEN r ELSE Failed(<<"AI processing error: ">> \o r.error))
       \/ Release(t, "process_query", "chat_model", 60)

\* DracoSearchAgent.search.  A query that is in the cache (loaded from the
\* cache file or stored by an earlier search) and fresh is answered at lines
\* 135-149 without the manager, outside the try block: an entry without
\* "results" raises KeyError to the caller at line 146.  The sleep of line
\* 130 is time that passes before the get_component call.
search(t) ==
    /\ thr[t].pc = "idle"
    /\ \/ \E c \in CacheLookups, e \in CachedEntries :
             /\ c = "miss" => e = "whole"
             /\ Enter(t, "search", c, c = "hit",
                      IF e = "torn" THEN Propagated ELSE Succeeded)
       \/ Acquire(t, "search", "search_engine")
       \/ \E u \in UseOutcomes : Use(t, "search", CollaboratorResult(thr[t].req.got, u))
       \/ Release(t, "search", "search_engine", 30)

\* DracoSearchAgent.search_images
search_images(t) ==
    /\ thr[t].pc = "idle"
    /\ \/ Enter(t, "search_images", "query", FALSE, Succeeded)
       \/ Acquire(t, "search_images", "search_engine")
       \/ \E u \in UseOutcomes : Use(t, "search_images", CollaboratorResult(thr[t].req.got, u))
       \/ Release(t, "search_images", "search_engine", 30)

\* self.initialized of DracoAutomation: initialize() sets it right after
\* its register_component call, and in safe mode does neither
initialized == "pyautogui" \in DOMAIN components

\* DracoAutomation.execute_command.  Lines 94-106 return before the try
\* block; a command type that is none of click, type, press and screenshot
\* returns from the else branch of line 143 once get_component has returned,
\* without a use of the object and without schedule_unload.
execute_command(t) ==
    /\ thr[t].pc = "idle"
    /\ \/ \E c \in Commands :
             Enter(t, "execute_command", c, ~initialized \/ c = "dangerous",
                   IF ~initialized
                   THEN Failed(<<"Automation not initialized">>)
                   ELSE Failed(<<"Dangerous command requires confirmation">>))
       \/ Acquire(t, "execute_command", "pyautogui")
       \/ \E u \in UseOutcomes :
             Use(t, "execute_command",
                 IF thr[t].req.got.kind = "ok" /\ thr[t].req.input = "scroll"
                 THEN Failed(<<"Unknown command: ", thr[t].req.input>>)
                 ELSE CollaboratorResult(thr[t].req.got, u))
       \/ Release(t, "execute_command", "pyautogui", 30)

\* DracoAICore.unload_model, and DracoAICore.cleanup, which calls it and
\* prints: unload_component("chat_model") on the caller's thread, between
\* its requests.
unload_model(t) ==
    /\ thr[t].pc = "idle"
    /\ thr[t].req.pc = "idle"
    /\ UnloadComponent(t, "chat_model")

\* DracoSearchAgent.cleanup and DracoAutomation.cleanup: unload_all on the
\* manager all collaborators share; the cache file that the first one
\* writes afterwards is not read again.
cleanup(t) ==
    /\ thr[t].pc = "idle"
    /\ thr[t].req.pc = "idle"
    /\ UnloadAll(t)

\* get_status of a collaborator: the manager's get_status, put into a
\* dictionary of its own
get_status(t) ==
    /\ thr[t].pc = "idle"
    /\ thr[t].req.pc = "idle"
    /\ GetStatus(t)

\* The manager after main_final.py has constructed the collaborators:
\* DracoAICore registers chat_model with an unloader, DracoAutomation
\* registers pyautogui and DracoSearchAgent registers search_engine, both
\* without one; in safe mode DracoAutomation registers nothing.
Constructed(safe) ==
    [n \in {"chat_model", "search_engine"} \cup (IF safe THEN {} ELSE {"pyautogui"}) |->
        NewDescriptor(n = "chat_model")]

InitCollab ==
    \E safe \in BOOLEAN :
        /\ components = Constructed(safe)
        /\ keys = IF safe THEN <<"chat_model", "search_engine">>
                          ELSE <<"chat_model", "pyautogui", "search_engine">>
        /\ unload_timers = <<>>
        /\ timers = <<>>
        /\ lock = Unlocked
        /\ thr = [t \in Threads |-> IdleThread]
        /\ now = StartTime
        /\ loads = [n \in {"chat_model", "pyautogui", "search_engine"} |-> 0]
        /\ plain = [n \in {"chat_model", "pyautogui", "search_engine"} |-> TRUE]
        /\ last = NoEvent
        /\ calls = MaxCallsCollab
        /\ accessor = NoAccess

\* time passes, by more than the wait ceiling and the shorter idle timeout
Pass ==
    /\ now < StartTime + MaxPass * (WaitCeiling + 1)
    /\ now' = now + WaitCeiling + 1
    /\ UNCHANGED <<components, keys, unload_timers, timers, lock, thr, loads, plain, last,
                   calls, accessor>>

\* Runs of one caller thread that serves the requests, next to the timers'
\* threads.
NextCollab ==
    \/ process_query(1)
    \/ search(1)
    \/ search_images(1)
    \/ execute_command(1)
    \/ unload_model(1)
    \/ cleanup(1)
    \/ get_status(1)
    \/ AcquireLock(1)
    \/ WaitTimeout(1)
    \/ \E o \in LoaderOutcomes : LoaderReturn(1, o)
    \/ \E o \in UnloaderOutcomes : UnloaderReturn(1, o)
    \/ \E tm \in TimerIds : TimerExpire(tm)
    \/ \E tm \in TimerIds : UnloadIfIdle(tm)
    \/ \E tm \in TimerIds, o \in UnloaderOutcomes : TimerUnloaderReturn(tm, o)
    \/ Pass

SpecCollab == InitCollab /\ [][NextCollab]_vars

\* ---- get_lazy_loader -----------------------------------------------------
\* The function has no lock: a thread can be preempted between the test of
\* line 164, the assignment of line 165 and the read of line 166.
mgrvars == <<components, keys, unload_timers, timers, lock, thr, now, loads, plain, last, calls>>

\* line 164: the call and the test "_lazy_loader is None"
AccessorCheck(t) ==
    /\ accessor.caller[t].pc \in {"idle", "done"}
    /\ accessor' = [accessor EXCEPT !.caller[t].pc =
                        IF accessor.global = None THEN "constructing" ELSE "returning"]
    /\ UNCHANGED mgrvars

\* line 165: a new DracoLazyLoader is constructed and stored in the global
AccessorConstruct(t) ==
    /\ accessor.caller[t].pc = "constructing"
    /\ accessor' = [accessor EXCEPT !.made = @ + 1, !.global = accessor.made + 1,
                                    !.caller[t].pc = "returning"]
    /\ UNCHANGED mgrvars

\* line 166: the global is read and returned
AccessorReturn(t) ==
    /\ accessor.caller[t].pc = "returning"
    /\ accessor' = [accessor EXCEPT !.caller[t].pc = "done",
                                    !.caller[t].ret = accessor.global]
    /\ UNCHANGED mgrvars

NextSingleton ==
    \/ \E t \in Callers : AccessorCheck(t)
    \/ \E t \in Callers : AccessorConstruct(t)
    \/ \E t \in Callers : AccessorReturn(t)

SpecSingleton == Init /\ [][NextSingleton]_vars

\* ==== the claims ==========================================================

\* C1: at most one load.  For a component that has been registered once and
\* only plainly acquired (no force reload, no eviction, no loader failure),
\* the loader has been invoked at most once however many threads called
\* get_component at the same time, and every call that returned got the
\* instance that one invocation built.
C1_AtMostOneLoad ==
    \A n \in DOMAIN components :
        plain[n] =>
            /\ loads[n] <= 1
            /\ (last.op = "get" /\ last.name = n /\ last.kind = "ok")
                  => (loads[n] = 1 /\ last.val = 1)

\* Two calls after the registration, the second made while the first was in
\* the loader: it waited for the lock and then returned the cached instance.
C1_Witness ==
    \E n \in DOMAIN components :
        /\ plain[n]
        /\ calls = MaxCalls - 3
        /\ last.op = "get" /\ last.name = n /\ last.kind = "ok"
        /\ last.waited /\ last.was = LOADED /\ last.val = 1
        /\ loads[n] = 1
        /\ components[n].access_count = 2

\* C2: a descriptor's instance is non-null if and only if its state is
\* Loaded.
C2_InstanceIffLoaded ==
    \A n \in DOMAIN components :
        (components[n].instance # None) <=> (components[n].state = LOADED)

\* C3: while a thread is inside the loader of one component, no caller of
\* get_component, schedule_unload or unload_component for a different
\* component is blocked.
C3_OtherComponentsNotBlocked ==
    \A t, u \in Threads :
        (/\ thr[t].pc = "in_loader"
         /\ thr[u].pc = "blocked"
         /\ thr[u].call.op \in {"get", "schedule", "unload"})
        => thr[u].call.name = thr[t].call.name

\* C4: a caller of get_component that arrives while another thread's load of
\* the same component is in flight is not still blocked behind that load
\* once the wait ceiling has elapsed (it has failed with LoadTimeout).
C4_BoundedWait ==
    \A t, u \in Threads :
        (/\ thr[t].pc = "in_loader"
         /\ thr[u].pc = "blocked"
         /\ thr[u].call.op = "get"
         /\ thr[u].call.name = thr[t].call.name)
        => now - thr[u].since <= WaitCeiling

\* C5: unload_component on a Loaded component leaves it NotLoaded with its
\* instance cleared, with or without an unloader.
C5_UnloadLeavesNotLoaded ==
    (last.op = "unload" /\ last.was = LOADED)
    => /\ components[last.name].state = NOT_LOADED
       /\ components[last.name].instance = None

\* C6: when the unloader raises, unload_component still returns normally
\* and the component ends NotLoaded with its instance cleared.
C6_UnloadCompletesOnRaise ==
    (last.op = "unload" /\ last.cb \in {"raise", "interrupt"})
    => /\ last.kind = "ok"
       /\ components[last.name].state = NOT_LOADED
       /\ components[last.name].instance = None

\* C7: the get_component that follows an unload_component of a Loaded
\* component does not return a cached instance: what it returns was built
\* by a loader call of its own.
C7_FreshAfterEvict ==
    [][(/\ last.op = "unload" /\ last.was = LOADED
        /\ last'.op = "get" /\ last'.name = last.name)
       => last'.cb = "value"]_vars

\* C8: a timer check that finds the component Loaded and idle for the
\* timer's timeout leaves it NotLoaded, with or without an unloader.
C8_IdleEvicted ==
    (last.op = "timer" /\ last.kind = "evict")
    => components[last.name].state = NOT_LOADED

\* C9: once a component has been acquired again and that acquire cancelled
\* its pending timer, no timer check evicts it unless schedule_unload is
\* called anew.
C9_ReacquireKeepsLoaded ==
    ~(/\ last.op = "timer" /\ last.cb = "ok"
      /\ last.name \in DOMAIN unload_timers
      /\ timers[unload_timers[last.name]].phase = "cancelled"
      /\ components[last.name].access_count >= 2)

\* C10: last writer wins.  A timer whose check evicts its component is the
\* most recently scheduled timer of that component.
C10_LastWriterWins ==
    (last.op = "timer" /\ last.cb = "ok")
    => \A j \in (last.val + 1)..Len(timers) : timers[j].name # last.name

\* C11: the check a timer runs when it fires evicts only if, at that moment,
\* the component is registered and LOADED and has not been used for at least
\* the timer's own timeout; so a timer that was scheduled before the latest
\* acquire or reload never evicts an instance that has been idle for less
\* than that timeout.  The step that passes the check is the one that takes
\* an expired timer into the unloader, or ends it with an "evict" event.
C11_EvictOnlyIfIdle ==
    [][\A tm \in 1..Len(timers) :
          (/\ timers[tm].phase = "expired"
           /\ \/ timers'[tm].phase = "in_unloader"
              \/ (timers'[tm].phase = "done" /\ last'.kind = "evict"))
          => LET n == timers[tm].name IN
             /\ n \in DOMAIN components
             /\ components[n].state = LOADED
             /\ now - components[n].last_used >= timers[tm].timeout]_vars

\* A timer scheduled for the first instance fired after that instance was
\* unloaded and a second one was loaded, and left the fresh instance alone.
C11_Witness ==
    /\ last.op = "timer"
    /\ last.kind = "skip"
    /\ last.was = LOADED
    /\ loads[last.name] = 2
    /\ components[last.name].instance = 2
    /\ components[last.name].last_used = now

\* C12: ERROR is not sticky.  A get_component whose loader raised leaves the
\* component in ERROR; a later get_component that finds it in ERROR invokes
\* the loader again, whether or not a reload was forced, and when that
\* loader returns its object the component is LOADED with that object, which
\* is also what the call returns.
C12_RetryAfterError ==
    /\ (last.op = "get" /\ last.kind = "LoadError")
          => components[last.name].state = ERROR
    /\ (last.op = "get" /\ last.was = ERROR)
          => /\ last.cb # "none"
             /\ last.cb = "value"
                   => /\ last.kind = "ok"
                      /\ last.val = loads[last.name]
                      /\ components[last.name].state = LOADED
                      /\ components[last.name].instance = last.val

\* The loader raised on the first acquire and built its object on the second.
C12_Witness ==
    /\ last.op = "get"
    /\ last.was = ERROR
    /\ last.cb = "value"
    /\ loads[last.name] = 2
    /\ components[last.name].state = LOADED
    /\ components[last.name].instance = 2
    /\ components[last.name].access_count = 1

\* C13: a get_component whose loader raises invokes the loader once, leaves
\* the component in ERROR, raises the loader's exception to the caller, and
\* changes neither access_count nor last_used.  The call is two steps: the
\* one that enters the loader and the one in which the loader raises.
C13_FailedLoadChangesOnlyState ==
    [][\A t \in Threads :
          LET n == thr'[t].call.name
              m == thr[t].call.name
          IN
          /\ (thr[t].pc # "in_loader" /\ thr'[t].pc = "in_loader")
                => /\ loads'[n] = loads[n] + 1
                   /\ components'[n].access_count = components[n].access_count
                   /\ components'[n].last_used = components[n].last_used
          /\ (thr[t].pc = "in_loader" /\ last'.op = "get" /\ last'.cb \in Raised)
                => /\ last'.kind = "LoadError"
                   /\ last'.name = m
                   /\ thr'[t].pc = "idle"
                   /\ loads' = loads
                   /\ components'[m] = [components[m] EXCEPT !.state = ERROR]]_vars

\* A forced reload of a component that had been acquired once: the loader
\* raised later than the first acquire, and the descriptor still carries
\* the count and time stamp of that first acquire.
C13_Witness ==
    /\ last.op = "get"
    /\ last.kind = "LoadError"
    /\ last.cb = "raise"
    /\ last.was = LOADED
    /\ components[last.name].state = ERROR
    /\ components[last.name].access_count = 1
    /\ components[last.name].last_used = StartTime
    /\ now > StartTime
    /\ loads[last.name] = 2

\* C14: every get_component that returns normally returns a constructed
\* instance, never None: a loader that cannot build its resource shows up
\* as an error of the call, not as a LOADED component without instance.
C14_ReturnsConstructedInstance ==
    (last.op = "get" /\ last.kind = "ok")
        => /\ last.val # None
           /\ components[last.name].instance # None

\* A step in which the handler of a caller thread takes the lock and runs:
\* a call made while the lock is free, or a blocked caller getting the lock.
HandlerStarts ==
    \/ calls' # calls /\ LockFree
    \/ \E t \in Threads : thr[t].pc = "blocked" /\ thr'[t].pc # "blocked"

\* that handler is get_component(n): it has returned, or is in the loader
\* or in the wait loop
GetStarts(n) ==
    /\ HandlerStarts
    /\ \/ last'.op = "get" /\ last'.name = n
       \/ \E t \in Threads : /\ thr[t].pc \in {"idle", "blocked"}
                              /\ thr'[t].pc \in {"in_loader", "waiting"}
                              /\ thr'[t].call.name = n

\* C15: get_component of a name that is not registered raises KeyError and
\* changes nothing: no descriptor appears, no loader runs, and no descriptor
\* and no timer of any component, pending or not, is modified or cancelled.
C15_UnknownAcquireChangesNothing ==
    [][\A n \in Names :
          (GetStarts(n) /\ n \notin DOMAIN components)
          => /\ last'.op = "get"
             /\ last'.name = n
             /\ last'.kind = "KeyError"
             /\ UNCHANGED <<components, keys, unload_timers, timers, loads, now>>]_vars

\* get_component of an unregistered name for which schedule_unload had
\* started a timer, next to a registered component: the timer is still
\* waiting afterwards.
C15_Witness ==
    /\ last.op = "get"
    /\ last.kind = "KeyError"
    /\ last.name \notin DOMAIN components
    /\ DOMAIN components # {}
    /\ last.name \in DOMAIN unload_timers
    /\ timers[unload_timers[last.name]].phase = "waiting"
    /\ loads[last.name] = 0

\* C16: unload_component of a name that is not registered reports the
\* unknown name to its caller, as get_component does with its KeyError.
C16_UnknownEvictReported ==
    (last.op = "unload" /\ last.was = "unregistered") => last.kind = "KeyError"

\* C17: unload_component of a registered component that is not LOADED
\* (NOT_LOADED, LOADING or ERROR) returns without error and without calling
\* the unloader, and leaves the descriptors and all timers as they were.
\* An unload_component call ends either in the step that takes the lock or
\* in the step in which its unloader comes back.
C17_EvictNotLoadedIsNoOp ==
    [][(/\ \/ HandlerStarts
           \/ \E t \in Threads : thr[t].pc = "in_unloader" /\ thr'[t].pc = "idle"
        /\ last'.op = "unload"
        /\ last'.was \in {NOT_LOADED, LOADING, ERROR})
       => /\ HandlerStarts
          /\ last'.kind = "ok"
          /\ last'.cb = "none"
          /\ UNCHANGED <<components, keys, unload_timers, timers, loads>>]_vars

\* unload_component of a component whose load had failed, which has an
\* unloader and a timer waiting: state, instance, counters and the timer
\* are what they were.
C17_Witness ==
    /\ last.op = "unload"
    /\ last.was = ERROR
    /\ last.cb = "none"
    /\ components[last.name].unloader
    /\ components[last.name].state = ERROR
    /\ last.name \in DOMAIN unload_timers
    /\ timers[unload_timers[last.name]].phase = "waiting"

\* C18: register_component(name, ...) leaves exactly one descriptor for the
\* name, in NOT_LOADED with no instance, access_count 0 and last_used unset
\* (0), whatever the name's descriptor was before, and leaves the
\* descriptors of all other names as they were.
C18_RegisterResets ==
    [][(HandlerStarts /\ last'.op = "register")
       => LET n == last'.name IN
          /\ last'.kind = "ok"
          /\ DOMAIN components' = (DOMAIN components) \cup {n}
          /\ Cardinality({i \in 1..Len(keys') : keys'[i] = n}) = 1
          /\ components'[n].state = NOT_LOADED
          /\ components'[n].instance = None
          /\ components'[n].access_count = 0
          /\ components'[n].last_used = 0
          /\ \A m \in (DOMAIN components) \ {n} : components'[m] = components[m]]_vars

\* A name was registered again while its component was LOADED, next to a
\* second registered component.
C18_Witness ==
    /\ last.op = "register"
    /\ last.was = LOADED
    /\ loads[last.name] = 1
    /\ components[last.name].state = NOT_LOADED
    /\ components[last.name].instance = None
    /\ components[last.name].access_count = 0
    /\ DOMAIN components = Names

\* C19: after unload_all has returned, no registered component is LOADED
\* and no unload timer is pending: the timer table is empty and no timer is
\* waiting for its interval.
C19_EvictAllLeavesNothingLoaded ==
    (last.op = "unload_all" /\ last.kind = "ok")
        => /\ \A n \in DOMAIN components : components[n].state # LOADED
           /\ unload_timers = <<>>
           /\ \A i \in 1..Len(timers) : timers[i].phase # "waiting"

\* that a step is the start of an unload_all call
UnloadAllStarts ==
    /\ HandlerStarts
    /\ \/ last'.op = "unload_all"
       \/ \E t \in Threads : /\ thr[t].pc \in {"idle", "blocked"}
                              /\ thr'[t].pc = "in_unloader"
                              /\ thr'[t].call.op = "unload_all"

\* C20: unload_all is idempotent.  An unload_all made right after an
\* unload_all has returned returns without error, calls no unloader, and
\* leaves every descriptor and the timer table as the first call left them.
C20_EvictAllIdempotent ==
    [][(last.op = "unload_all" /\ last.kind = "ok" /\ UnloadAllStarts)
       => /\ last'.op = "unload_all"
          /\ last'.kind = "ok"
          /\ last'.cb = "none"
          /\ UNCHANGED <<components, keys, unload_timers, timers>>]_vars

\* C21: a timer check that runs after unload_all has returned, for a timer
\* that had expired before, with no other call in between, raises nothing,
\* calls no unloader and changes no descriptor.  The check is the step that
\* takes the timer out of "expired".
C21_FireAfterTeardownIsNoOp ==
    [][\A tm \in 1..Len(timers) :
          (/\ last.op = "unload_all"
           /\ last.kind = "ok"
           /\ timers[tm].phase = "expired"
           /\ timers'[tm].phase # "expired")
          => /\ timers'[tm].phase = "done"
             /\ last'.op = "timer"
             /\ UNCHANGED <<components, keys, unload_timers, loads>>]_vars

\* that a step is a register_component(n) call
RegisterStarts(n) ==
    HandlerStarts /\ last'.op = "register" /\ last'.name = n

\* C22: a descriptor's state changes along NOT_LOADED -> LOADING -> LOADED ->
\* UNLOADING -> NOT_LOADED (and LOADING -> ERROR -> LOADING); in particular a
\* LOADED component is never NOT_LOADED in the next state of its descriptor:
\* an eviction passes through UNLOADING.
C22_EvictionPassesUnloading ==
    [][\A n \in DOMAIN components :
          (components[n].state = LOADED /\ ~RegisterStarts(n))
          => components'[n].state # NOT_LOADED]_vars

\* that a step ends a get_component(n) call, normally or with an exception:
\* the step that takes the lock, or the one in which the loader comes back
\* or the wait loop gives up
GetReturns(n) ==
    /\ last'.op = "get"
    /\ last'.name = n
    /\ \/ HandlerStarts
       \/ \E t \in Threads : /\ thr[t].pc \in {"in_loader", "waiting"}
                              /\ thr'[t].pc = "idle"

\* C23: between two registrations of a name its access_count never
\* decreases, and it counts the get_component calls on the name that
\* returned: every step that ends such a call normally (cached return or
\* completed load) adds one, and no other step (failed load, wait timeout,
\* unload, timer check, schedule, status) changes it.
C23_AccessCountCountsReturns ==
    [][\A n \in DOMAIN components :
          ~RegisterStarts(n)
          => components'[n].access_count =
                components[n].access_count
                   + (IF GetReturns(n) /\ last'.kind = "ok" THEN 1 ELSE 0)]_vars

\* One load, one cached return and one failed forced reload since the
\* registration: the count is two.
C23_Witness ==
    /\ last.op = "get"
    /\ last.kind = "LoadError"
    /\ last.was = LOADED
    /\ loads[last.name] = 2
    /\ components[last.name].access_count = 2

\* C24: last_used of a component is set to the current time by every
\* get_component of it that returns, and is changed by nothing else but a
\* new registration: schedule_unload, the timer's check, unload_component,
\* unload_all, get_status and a get_component that raises leave it as it was.
C24_LastUsedOnlyByAcquire ==
    [][\A n \in DOMAIN components :
          ~RegisterStarts(n)
          => components'[n].last_used =
                IF GetReturns(n) /\ last'.kind = "ok"
                THEN now' ELSE components[n].last_used]_vars

\* A cached return later than the load stamped the later time, and a timer
\* check that came after it left the stamp alone.
C24_Witness ==
    /\ last.op = "timer"
    /\ last.name \in DOMAIN components
    /\ components[last.name].access_count = 2
    /\ components[last.name].last_used = StartTime + 1
    /\ loads[last.name] = 1

\* C25: get_status is a pure read.  It returns an entry for exactly the
\* registered names, each with the descriptor's state and access_count and
\* with idle seconds 0 when the component has not been acquired since its
\* registration (else the time since the last acquire), and it changes no
\* descriptor and no timer.
C25_StatusIsPureRead ==
    [][(HandlerStarts /\ last'.op = "status")
       => /\ last'.kind = "ok"
          /\ DOMAIN last'.status = DOMAIN components
          /\ \A n \in DOMAIN components :
                /\ last'.status[n].state = components[n].state
                /\ last'.status[n].access_count = components[n].access_count
                /\ last'.status[n].idle_seconds =
                      IF components[n].access_count = 0
                      THEN 0 ELSE now - components[n].last_used
          /\ UNCHANGED <<components, keys, unload_timers, timers, loads, now>>]_vars

\* get_status with two registered components, one acquired a second ago and
\* one never acquired.
C25_Witness ==
    /\ last.op = "status"
    /\ DOMAIN last.status = Names
    /\ last.status["a"].state = LOADED
    /\ last.status["a"].idle_seconds = 1
    /\ last.status["a"].access_count = 1
    /\ last.status["b"].state = NOT_LOADED
    /\ last.status["b"].idle_seconds = 0

\* C26: a get_status call made by one thread while another thread is inside
\* a component's loader does not wait for the load: it is never blocked on
\* the lock behind the loader.
C26_StatusNotBlockedByLoad ==
    \A t, u \in Threads :
        (thr[t].pc = "in_loader" /\ thr[u].pc = "blocked")
            => thr[u].call.op # "status"

\* that a step belongs to a get_component, schedule_unload or
\* unload_component call on name A, or to the check of one of A's timers
OperatesOn(A) ==
    \/ GetStarts(A)
    \/ HandlerStarts /\ last'.op \in {"schedule", "unload"} /\ last'.name = A
    \/ \E t \in Threads : /\ thr[t].pc \in {"idle", "blocked"}
                           /\ thr'[t].pc = "in_unloader"
                           /\ thr'[t].call.op = "unload"
                           /\ thr'[t].call.name = A
    \/ \E t \in Threads : /\ thr[t].pc \in {"in_loader", "waiting", "in_unloader"}
                           /\ thr[t].call.op \in {"get", "unload"}
                           /\ thr[t].call.name = A
                           /\ thr'[t].pc = "idle"
    \/ \E tm \in 1..Len(timers) : /\ timers[tm].name = A
                                   /\ timers[tm].phase \in {"expired", "in_unloader"}
                                   /\ timers'[tm].phase # timers[tm].phase

\* C27: components are independent.  A step of get_component (returning or
\* raising), schedule_unload, unload_component or a timer check on name A
\* leaves the descriptor of every other name B, B's entry in the timer
\* table and B's timers as they were; A going to ERROR does not change B.
C27_ComponentsIndependent ==
    [][\A A \in Names : OperatesOn(A) =>
          \A B \in Names \ {A} :
             /\ B \in DOMAIN components
                   => (B \in DOMAIN components' /\ components'[B] = components[B])
             /\ B \notin DOMAIN components => B \notin DOMAIN components'
             /\ B \in DOMAIN unload_timers
                   => (B \in DOMAIN unload_timers' /\ unload_timers'[B] = unload_timers[B])
             /\ \A i \in 1..Len(timers) :
                   timers[i].name = B => timers'[i] = timers[i]]_vars

\* The loader of one component raised while the other component was LOADED
\* with its instance.
C27_Witness ==
    \E A, B \in DOMAIN components :
        /\ A # B
        /\ last.op = "get"
        /\ last.name = A
        /\ last.kind = "LoadError"
        /\ components[A].state = ERROR
        /\ components[B].state = LOADED
        /\ components[B].instance = 1
        /\ components[B].access_count = 1

\* C28: a get_component that gives up with TimeoutError has only stopped
\* waiting: the descriptor is still LOADING and the load it waited for is
\* still in flight in another thread, so that it can complete and make the
\* component LOADED.
C28_TimeoutLeavesLoadInFlight ==
    (last.op = "get" /\ last.kind = "TimeoutError")
        => /\ components[last.name].state = LOADING
           /\ \E t \in Threads : /\ thr[t].pc = "in_loader"
                                  /\ thr[t].call.name = last.name

\* the timers of name n that are neither cancelled nor finished
Outstanding(n) ==
    {i \in 1..Len(timers) : /\ timers[i].name = n
                            /\ timers[i].phase \in {"waiting", "expired", "in_unloader"}}

\* C29: at every moment each component has at most one outstanding unload
\* timer, that is one neither cancelled nor finished: schedule_unload
\* cancels the stored timer before it installs the new one.
C29_AtMostOneOutstandingTimer ==
    \A n \in Names : Cardinality(Outstanding(n)) <= 1

\* the component a collaborator's request acquires
ComponentOf(op) ==
    CASE op = "process_query" -> "chat_model"
      [] op \in {"search", "search_images"} -> "search_engine"
      [] OTHER -> "pyautogui"

\* The component is LOADING and no thread is in its loader: every
\* get_component for it goes into the wait loop of lines 65-70, which only
\* the timeout of line 69 ends.
Stuck(n) ==
    /\ StateOf(n) = LOADING
    /\ \A t \in Threads : ~(thr[t].pc = "in_loader" /\ thr[t].call.name = n)

\* C30: a collaborator request whose get_component fails with KeyError, the
\* loader's exception or TimeoutError does not raise to its caller:
\* process_query, search, search_images and execute_command each return a
\* result with success False and str(e) as the description of the error
\* (process_query puts "AI processing error: " in front of it), and a later
\* request can still succeed: the component is not left LOADING with no
\* load running, the state in which every later get_component for it times
\* out.
C30_FailedAcquireIsRecoverable ==
    (/\ last.op \in {"process_query", "search", "search_images", "execute_command"}
     /\ last.kind \in {"KeyError", "LoadError", "TimeoutError"})
    => /\ ~last.result.raised
       /\ ~last.result.success
       /\ last.result.error =
             (IF last.op = "process_query" THEN <<"AI processing error: ">> ELSE <<>>)
                \o Message([kind |-> last.kind, val |-> last.val, cb |-> last.cb])
       /\ ~Stuck(ComponentOf(last.op))

\* C31: get_component(name, force_reload=True) on a LOADED component calls
\* the loader exactly once, and when the loader returns its object the
\* stored instance is replaced by it: this call returns the new object, not
\* the previous one, and a later cached return gives the stored instance.
C31_ForceReloadReplacesInstance ==
    [][\A n \in DOMAIN components :
          /\ \A t \in Threads :
                (/\ thr[t].pc # "in_loader"
                 /\ thr'[t].pc = "in_loader"
                 /\ thr'[t].call.name = n
                 /\ thr'[t].was = LOADED)
                => (thr'[t].call.force /\ loads'[n] = loads[n] + 1)
          /\ (GetReturns(n) /\ last'.force /\ last'.was = LOADED)
                => /\ \E t \in Threads : thr[t].pc = "in_loader" /\ thr'[t].pc = "idle"
                   /\ last'.cb # "none"
                   /\ loads' = loads
                   /\ last'.cb = "value"
                         => /\ last'.kind = "ok"
                            /\ last'.val = loads[n]
                            /\ last'.val # components[n].instance
                            /\ components'[n].instance = last'.val
                            /\ components'[n].state = LOADED
          /\ (GetReturns(n) /\ HandlerStarts /\ last'.kind = "ok")
                => last'.val = components[n].instance]_vars

\* A load, a forced reload and then a cached return of the second object.
C31_Witness ==
    /\ last.op = "get"
    /\ last.kind = "ok"
    /\ last.was = LOADED
    /\ ~last.force
    /\ last.val = 2
    /\ loads[last.name] = 2
    /\ components[last.name].instance = 2
    /\ components[last.name].access_count = 3

\* C33: LOADING is never a permanent state.  A descriptor is LOADING only
\* while a thread is inside its loader: however the loader ends (a value,
\* an exception, a KeyboardInterrupt or SystemExit), the descriptor leaves
\* LOADING.
C33_LoadingOnlyWhileLoading ==
    \A n \in DOMAIN components :
        components[n].state = LOADING
            => \E t \in Threads : thr[t].pc = "in_loader" /\ thr[t].call.name = n

\* the loader and unloader callbacks that are executing
RunningCallbacks ==
    {<<"thread", t>> : t \in {u \in Threads : thr[u].pc \in {"in_loader", "in_unloader"}}}
       \cup {<<"timer", i>> : i \in {j \in 1..Len(timers) : timers[j].phase = "in_unloader"}}

\* C34: no two loader or unloader callbacks execute at the same time, for
\* the same or for different names: each runs inside the manager lock, and
\* the thread or timer that runs one is the owner of the lock.
C34_CallbacksSerialized ==
    /\ Cardinality(RunningCallbacks) <= 1
    /\ \A t \in Threads :
          thr[t].pc \in {"in_loader", "in_unloader"} => lock.owner = ThreadOwner(t)
    /\ \A i \in 1..Len(timers) :
          timers[i].phase = "in_unloader" => lock.owner = TimerOwner(i)

\* A thread is inside the loader of one component while the other thread,
\* which wants to load the other component, is blocked on the lock.
C34_Witness ==
    \E t, u \in Threads :
        /\ thr[t].pc = "in_loader"
        /\ thr[u].pc = "blocked"
        /\ thr[u].call.op = "get"
        /\ thr[u].call.name # thr[t].call.name
        /\ thr[u].call.name \in DOMAIN components
        /\ components[thr[u].call.name].state = NOT_LOADED

\* C35: get_lazy_loader returns the same manager to every caller, also when
\* the first calls are made by several threads at the same time: only one
\* manager is ever constructed, and any two calls that have returned have
\* returned the same object.
C35_SingleManager ==
    /\ accessor.made <= 1
    /\ \A t, u \in Callers :
          (accessor.caller[t].pc = "done" /\ accessor.caller[u].pc = "done")
              => accessor.caller[t].ret = accessor.caller[u].ret

\* C36: a collaborator's cleanup calls unload_all on the shared manager, and
\* that call acts on every registered component, whoever registered it:
\* when it returns with the components of two collaborators registered,
\* none of them is LOADED any more and none has a timer left in the table
\* or waiting.
C36_CleanupReachesEveryComponent ==
    (last.op = "unload_all" /\ last.kind = "ok" /\ DOMAIN components = Names)
        => \A n \in Names :
              /\ components[n].state # LOADED
              /\ n \notin DOMAIN unload_timers
              /\ \A i \in 1..Len(timers) :
                    timers[i].name = n => timers[i].phase # "waiting"

\* C32: provided every loader and unloader call comes back, every call of
\* a caller thread (register_component, get_component, schedule_unload,
\* unload_component, unload_all, get_status) eventually returns and every
\* timer callback eventually ends, under every interleaving: no deadlock,
\* the nested calls under the held lock included.
C32_EveryCallReturns ==
    /\ \A t \in Threads : (thr[t].pc # "idle") ~> (thr[t].pc = "idle")
    /\ \A tm \in TimerIds :
          (tm <= Len(timers) /\ timers[tm].phase \in {"expired", "in_unloader"})
             ~> (tm <= Len(timers) /\ timers[tm].phase = "done")

\* A caller is blocked on the lock while a timer's callback is inside its
\* nested unload_component call, in the unloader.
C32_Witness ==
    \E t \in Threads, tm \in 1..Len(timers) :
        /\ thr[t].pc = "blocked"
        /\ timers[tm].phase = "in_unloader"
        /\ lock.owner = TimerOwner(tm)
        /\ lock.count = 2

====
